---- MODULE Spec2Model ----
(***************************************************************************)
(* Order placement, compensation and cancellation (services/order_service) *)
(* and the customer lifecycle (services/customer_service) over a           *)
(* non-transactional table store.  Every action is one store round trip    *)
(* of one caller, followed by the caller's local computation up to its     *)
(* next round trip.                                                        *)
(***************************************************************************)
EXTENDS Integers, Sequences, FiniteSets, TLC

VARIABLES customers,    \* table customers: rows [cust_id, name, email, phone]
          products,     \* table products: rows [prod_id, price, stock]
          orders,       \* table orders: rows [order_id, cust_id, total_amount, status, order_date]
          order_items,  \* table order_items: rows [item_id, order_id, prod_id, quantity, price]
          nextOrderId,  \* the store's generator of order_id and of order_date
          nextItemId,   \* the store's generator of item_id
          nextCustId,   \* the store's generator of cust_id
          proc,         \* per caller: the running operation, its position and its locals
          faults,       \* store round trips that may still fail
          hist          \* per caller, history of the running call: the tables at the
                        \* call, the request lines read so far, the compensating
                        \* round trips attempted, the first failure of the mutating
                        \* phase, the failure of a compensating round trip

vars == <<customers, products, orders, order_items, nextOrderId, nextItemId,
          nextCustId, proc, faults, hist>>

-----------------------------------------------------------------------------
(* Bounds of the model.                                                    *)

MaxOrders == 2      \* order rows ever inserted
MaxLines == 2       \* lines of one create_order request
MaxItems == 3       \* order_items rows ever inserted
MaxFaults == 2      \* store round trips that may fail in one behaviour
MaxCustomers == 3   \* customer rows ever inserted

Quantities == {0, 1, 2}          \* requested quantities (0 is rejected)
ProdIds == {1, 2}                \* products that exist
ReqProdIds == {1, 2, 3}          \* product ids a request may name (3: absent)
Prices == {1, 2}                 \* unit prices
ReqCustIds == {1, 2, 3}          \* customer ids a request may name
ReqOrderIds == 1..(MaxOrders + 1)

-----------------------------------------------------------------------------
(* Rows, and the store's select / update / delete on a table (a set of     *)
(* rows).  An absent row is the empty sequence, as resp.data is empty.     *)

None == <<>>

RECURSIVE ItemList(_)
\* item rows as the list the store returns, ascending item_id
ItemList(S) ==
    IF S = {} THEN <<>>
    ELSE LET r == CHOOSE x \in S : \A y \in S : x.item_id <= y.item_id
         IN <<r>> \o ItemList(S \ {r})

RECURSIVE SumSeq(_)
SumSeq(s) == IF s = <<>> THEN 0 ELSE Head(s) + SumSeq(Tail(s))

\* dao get_customer_by_id: select * from customers where cust_id = id limit 1
get_customer_by_id(id) ==
    LET m == {r \in customers : r.cust_id = id}
    IN IF m = {} THEN None ELSE <<CHOOSE r \in m : TRUE>>

\* product_dao.get_product_by_id: select * from products where prod_id = id
get_product_by_id(id) ==
    LET m == {r \in products : r.prod_id = id}
    IN IF m = {} THEN None ELSE <<CHOOSE r \in m : TRUE>>

\* product_dao.update_product(id, {"stock": s})
update_product_stock(id, s) ==
    {IF r.prod_id = id THEN [r EXCEPT !.stock = s] ELSE r : r \in products}

\* product_dao.update_product(id, {"price": p})
update_product_price(id, p) ==
    {IF r.prod_id = id THEN [r EXCEPT !.price = p] ELSE r : r \in products}

\* order_dao.create_order_record, the re-read: the most recent order of the
\* customer with the same total
SelectRecentOrder(cust_id, total_amount) ==
    LET m == {r \in orders : r.cust_id = cust_id /\ r.total_amount = total_amount}
    IN IF m = {} THEN None
       ELSE <<CHOOSE r \in m : \A q \in m : q.order_date <= r.order_date>>

\* order_dao.create_order_items, the re-read; order_dao.get_order, r2
SelectItems(order_id) ==
    ItemList({r \in order_items : r.order_id = order_id})

\* order_dao.get_order, r1; order_dao.update_order_status, the re-read
SelectOrder(order_id) ==
    LET m == {r \in orders : r.order_id = order_id}
    IN IF m = {} THEN None ELSE <<CHOOSE r \in m : TRUE>>

-----------------------------------------------------------------------------
(* A caller.                                                               *)

Callers == DOMAIN proc

Idle == [op |-> "none", pc |-> "idle", cust_id |-> 0, n |-> 0, order_id |-> 0,
         order_items |-> <<>>, total |-> 0, created_order |-> None,
         created_items |-> <<>>, updated_products |-> <<>>, i |-> 0,
         prod |-> None, e |-> None, order |-> None, items |-> <<>>,
         name |-> <<>>, email |-> <<>>, phone |-> <<>>, fields |-> <<>>,
         updates |-> <<>>, cust |-> None,
         result |-> [kind |-> "none", cause |-> "", row |-> None, items |-> <<>>]]

Snapshot == [customers |-> customers, products |-> products,
             orders |-> orders, order_items |-> order_items]

NoHist == [pre |-> [customers |-> {}, products |-> {}, orders |-> {}, order_items |-> {}],
           req |-> <<>>, attempted |-> {}, firstFail |-> None, rbFail |-> None]

\* a call starts: remember the tables as they are
Begin(c) == hist' = [hist EXCEPT ![c] = [NoHist EXCEPT !.pre = Snapshot]]

\* whether the store fails this round trip
Fails == IF faults > 0 THEN {FALSE, TRUE} ELSE {FALSE}

Spend(f) == faults' = IF f THEN faults - 1 ELSE faults

Goto(c, l) == proc' = [proc EXCEPT ![c] = l]

\* the operation ends by raising
Raise(l, kind, cause) ==
    [l EXCEPT !.pc = "done",
              !.result = [kind |-> kind, cause |-> cause, row |-> None, items |-> <<>>]]

\* the operation ends by returning a row (absent: None) and its items
Return(l, row, items) ==
    [l EXCEPT !.pc = "done",
              !.result = [kind |-> "ok", cause |-> "", row |-> row, items |-> items]]

\* the caller takes the outcome and is free for its next call
Finish(c) ==
    /\ proc[c].pc = "done"
    /\ proc' = [proc EXCEPT ![c] = Idle]
    /\ hist' = [hist EXCEPT ![c] = NoHist]
    /\ UNCHANGED <<customers, products, orders, order_items, nextOrderId,
                   nextItemId, nextCustId, faults>>

-----------------------------------------------------------------------------
(* order_service.create_order                                              *)

\* the admission check left out
AdmitAnyQuantity(stock, qty) == TRUE

\* line 32: the admission check of one line
Admit(stock, qty) == ~(stock < qty)

\* the total taken over the quantities alone
TotalOfQuantities(its) == SumSeq([k \in 1..Len(its) |-> its[k].quantity])

\* line 36: total = sum(quantity * price)
Total(its) == SumSeq([k \in 1..Len(its) |-> its[k].quantity * its[k].price])

\* the decrement stopping at zero
NewStockClamped(stock, qty) == IF stock < qty THEN 0 ELSE stock - qty

\* line 54: the stock written by the decrement
NewStock(stock, qty) == stock - qty

\* the restore writing back the stock it read
RestoredStockNoDelta(stock, delta) == stock

\* line 71: the stock written by the compensating restore
RestoredStock(stock, delta) == stock + delta

\* line 84: what the caller sees after the compensation, whatever became of it
RaiseOriginal(l) == Raise(l, "OrderError", l.e[1])

\* the failure of the compensation reaching the caller
RollbackFailedSurfaces(l, e2) == Raise(l, "OrderError", e2)

\* lines 81-83: a compensating round trip failed with e2: swallowed
RollbackFailed(l, e2) == RaiseOriginal(l)

\* lines 79-80
RbOrder(l) ==
    IF l.created_order # None THEN [l EXCEPT !.pc = "rb_del_order"]
    ELSE RaiseOriginal(l)

\* lines 74-78
RbItems(l) ==
    IF l.created_items # <<>> THEN [l EXCEPT !.pc = "rb_del_item", !.i = 1]
    ELSE RbOrder(l)

\* lines 64-68: the handler is entered with the failure e
Rollback(l, e) ==
    LET h == [l EXCEPT !.e = <<e>>]
    IN IF h.updated_products # <<>> THEN [h EXCEPT !.pc = "rb_read", !.i = 1]
       ELSE RbItems(h)

\* the next restore, or the deletions after the last one
RbNextRestore(l) ==
    IF l.i < Len(l.updated_products) THEN [l EXCEPT !.pc = "rb_read", !.i = l.i + 1]
    ELSE RbItems(l)

\* lines 36-43 after the last line was admitted, or the next line
AfterLine(l) ==
    IF l.i < l.n THEN [l EXCEPT !.i = l.i + 1]
    ELSE [l EXCEPT !.total = Total(l.order_items), !.pc = "co_insert_order"]

\* lines 26-34: one line it against the product row read for it
ValidateLine(l, it, prod) ==
    IF prod = None THEN Raise(l, "OrderError", "Product not found")
    ELSE IF it.quantity <= 0 THEN Raise(l, "OrderError", "Quantity must be positive")
    ELSE IF ~Admit(prod[1].stock, it.quantity) THEN Raise(l, "OrderError", "Out of stock")
    ELSE AfterLine([l EXCEPT !.order_items =
                        Append(@, [prod_id |-> prod[1].prod_id,
                                   quantity |-> it.quantity,
                                   price |-> prod[1].price])])

\* lines 59-62
Success(l) ==
    Return(l, <<[l.created_order[1] EXCEPT !.total_amount = l.total]>>, l.created_items)

\* a failure in the mutating phase enters the handler; the first one is recorded
Fail(c, l, e) ==
    /\ Goto(c, Rollback(l, e))
    /\ hist' = [hist EXCEPT ![c].firstFail = <<e>>]

CallCreateOrder(c) ==
    /\ proc[c].pc = "idle"
    /\ nextOrderId <= MaxOrders
    /\ \E cust_id \in ReqCustIds, n \in 0..MaxLines :
          /\ nextItemId + n <= MaxItems + 1
          /\ Goto(c, [Idle EXCEPT !.op = "create_order", !.pc = "co_customer",
                               !.cust_id = cust_id, !.n = n])
    /\ Begin(c)
    /\ UNCHANGED <<customers, products, orders, order_items, nextOrderId,
                   nextItemId, nextCustId, faults>>

\* lines 18-20, and the loop is entered
CoGetCustomer(c) ==
    LET l == proc[c] IN
    /\ l.pc = "co_customer"
    /\ \E f \in Fails :
          /\ Spend(f)
          /\ IF f THEN Goto(c, Raise(l, "Exception", "get_customer_by_id"))
             ELSE IF get_customer_by_id(l.cust_id) = None
                  THEN Goto(c, Raise(l, "OrderError", "Customer not found"))
             ELSE IF l.n = 0
                  THEN Goto(c, [l EXCEPT !.total = Total(<<>>), !.pc = "co_insert_order"])
             ELSE Goto(c, [l EXCEPT !.i = 1, !.pc = "co_validate"])
    /\ UNCHANGED <<customers, products, orders, order_items, nextOrderId,
                   nextItemId, nextCustId, hist>>

\* lines 24-34 for line i of items, which the loop reads now
CoValidateLine(c) ==
    LET l == proc[c] IN
    /\ l.pc = "co_validate"
    /\ \E prod_id \in ReqProdIds, quantity \in Quantities, f \in Fails :
          LET it == [prod_id |-> prod_id, quantity |-> quantity] IN
          /\ Spend(f)
          /\ hist' = [hist EXCEPT ![c].req = Append(@, it)]
          /\ IF f THEN Goto(c, Raise(l, "Exception", "get_product_by_id"))
             ELSE Goto(c, ValidateLine(l, it, get_product_by_id(prod_id)))
    /\ UNCHANGED <<customers, products, orders, order_items, nextOrderId,
                   nextItemId, nextCustId>>

\* order_dao.create_order_record, the insert (line 10)
CoInsertOrder(c) ==
    LET l == proc[c] IN
    /\ l.pc = "co_insert_order"
    /\ \E f \in Fails :
          /\ Spend(f)
          /\ IF f THEN /\ Fail(c, l, "insert orders")
                       /\ UNCHANGED <<orders, nextOrderId>>
             ELSE /\ orders' = orders \cup
                        {[order_id |-> nextOrderId, cust_id |-> l.cust_id,
                          total_amount |-> l.total, status |-> "PLACED",
                          order_date |-> nextOrderId]}
                  /\ nextOrderId' = nextOrderId + 1
                  /\ Goto(c, [l EXCEPT !.pc = "co_select_order"])
                  /\ UNCHANGED hist
    /\ UNCHANGED <<customers, products, order_items, nextItemId, nextCustId>>

\* order_dao.create_order_record, the re-read (lines 12-13), and line 46
CoSelectOrder(c) ==
    LET l == proc[c] IN
    /\ l.pc = "co_select_order"
    /\ \E f \in Fails :
          /\ Spend(f)
          /\ IF f THEN Fail(c, l, "select orders")
             ELSE LET row == SelectRecentOrder(l.cust_id, l.total)
                      h == [l EXCEPT !.created_order = row]
                  IN IF row = None THEN Fail(c, h, "TypeError")
                     ELSE Goto(c, [h EXCEPT !.pc = "co_insert_items"]) /\ UNCHANGED hist
    /\ UNCHANGED <<customers, products, orders, order_items, nextOrderId,
                   nextItemId, nextCustId>>

\* order_dao.create_order_items, the insert (lines 19-27)
CoInsertItems(c) ==
    LET l == proc[c]
        its == l.order_items
    IN
    /\ l.pc = "co_insert_items"
    /\ \E f \in Fails :
          /\ Spend(f)
          /\ IF f THEN /\ Fail(c, l, "insert order_items")
                       /\ UNCHANGED <<order_items, nextItemId>>
             ELSE /\ order_items' = order_items \cup
                        {[item_id |-> nextItemId + k - 1,
                          order_id |-> l.created_order[1].order_id,
                          prod_id |-> its[k].prod_id,
                          quantity |-> its[k].quantity,
                          price |-> its[k].price] : k \in 1..Len(its)}
                  /\ nextItemId' = nextItemId + Len(its)
                  /\ Goto(c, [l EXCEPT !.pc = "co_select_items"])
                  /\ UNCHANGED hist
    /\ UNCHANGED <<customers, products, orders, nextOrderId, nextCustId>>

\* order_dao.create_order_items, the re-read (lines 29-30), and the
\* decrement loop is entered
CoSelectItems(c) ==
    LET l == proc[c] IN
    /\ l.pc = "co_select_items"
    /\ \E f \in Fails :
          /\ Spend(f)
          /\ IF f THEN Fail(c, l, "select order_items")
             ELSE LET h == [l EXCEPT !.created_items =
                                        SelectItems(l.created_order[1].order_id)]
                  IN /\ IF h.order_items = <<>> THEN Goto(c, Success(h))
                        ELSE Goto(c, [h EXCEPT !.pc = "co_dec_read", !.i = 1])
                     /\ UNCHANGED hist
    /\ UNCHANGED <<customers, products, orders, order_items, nextOrderId,
                   nextItemId, nextCustId>>

\* line 53: the product of line i is read again
CoDecRead(c) ==
    LET l == proc[c] IN
    /\ l.pc = "co_dec_read"
    /\ \E f \in Fails :
          /\ Spend(f)
          /\ IF f THEN Fail(c, l, "get_product_by_id")
             ELSE LET prod == get_product_by_id(l.order_items[l.i].prod_id)
                  IN IF prod = None THEN Fail(c, l, "AttributeError")
                     ELSE /\ Goto(c, [l EXCEPT !.prod = prod, !.pc = "co_dec_write"])
                          /\ UNCHANGED hist
    /\ UNCHANGED <<customers, products, orders, order_items, nextOrderId,
                   nextItemId, nextCustId>>

\* the decrement applied by the store to the stock it holds at the write
CoDecWriteCurrent(c) ==
    LET l == proc[c]
        it == l.order_items[l.i]
    IN
    /\ l.pc = "co_dec_write"
    /\ \E f \in Fails :
          /\ Spend(f)
          /\ IF f THEN Fail(c, l, "update_product") /\ UNCHANGED products
             ELSE LET h == [l EXCEPT !.updated_products =
                                        Append(@, [prod_id |-> it.prod_id,
                                                   delta |-> it.quantity]),
                                     !.prod = None]
                  IN /\ products' = update_product_stock(
                                        it.prod_id, NewStock(get_product_by_id(it.prod_id)[1].stock, it.quantity))
                     /\ IF l.i < Len(l.order_items)
                        THEN Goto(c, [h EXCEPT !.pc = "co_dec_read", !.i = l.i + 1])
                        ELSE Goto(c, Success(h))
                     /\ UNCHANGED hist
    /\ UNCHANGED <<customers, orders, order_items, nextOrderId, nextItemId,
                   nextCustId>>

\* lines 54-57: the decremented stock is written, and lines 59-62 after the
\* last line
CoDecWrite(c) ==
    LET l == proc[c]
        it == l.order_items[l.i]
    IN
    /\ l.pc = "co_dec_write"
    /\ \E f \in Fails :
          /\ Spend(f)
          /\ IF f THEN Fail(c, l, "update_product") /\ UNCHANGED products
             ELSE LET h == [l EXCEPT !.updated_products =
                                        Append(@, [prod_id |-> it.prod_id,
                                                   delta |-> it.quantity]),
                                     !.prod = None]
                  IN /\ products' = update_product_stock(
                                        it.prod_id, NewStock(l.prod[1].stock, it.quantity))
                     /\ IF l.i < Len(l.order_items)
                        THEN Goto(c, [h EXCEPT !.pc = "co_dec_read", !.i = l.i + 1])
                        ELSE Goto(c, Success(h))
                     /\ UNCHANGED hist
    /\ UNCHANGED <<customers, orders, order_items, nextOrderId, nextItemId,
                   nextCustId>>

\* lines 68-70: the product of ledger entry i is read
RbRead(c) ==
    LET l == proc[c]
        up == l.updated_products[l.i]
    IN
    /\ l.pc = "rb_read"
    /\ \E f \in Fails :
          /\ Spend(f)
          /\ hist' = [hist EXCEPT ![c].attempted = @ \cup {<<"restore", l.i>>},
                                  ![c].rbFail = IF f THEN <<"get_product_by_id">> ELSE @]
          /\ IF f THEN Goto(c, RollbackFailed(l, "get_product_by_id"))
             ELSE LET prod == get_product_by_id(up.prod_id)
                  IN IF prod = None THEN Goto(c, RbNextRestore(l))
                     ELSE Goto(c, [l EXCEPT !.prod = prod, !.pc = "rb_write"])
    /\ UNCHANGED <<customers, products, orders, order_items, nextOrderId,
                   nextItemId, nextCustId>>

\* lines 71-72: the restored stock is written
RbWrite(c) ==
    LET l == proc[c]
        up == l.updated_products[l.i]
    IN
    /\ l.pc = "rb_write"
    /\ \E f \in Fails :
          /\ Spend(f)
          /\ hist' = [hist EXCEPT ![c].rbFail = IF f THEN <<"update_product">> ELSE @]
          /\ IF f THEN Goto(c, RollbackFailed(l, "update_product")) /\ UNCHANGED products
             ELSE /\ products' = update_product_stock(
                                     up.prod_id, RestoredStock(l.prod[1].stock, up.delta))
                  /\ Goto(c, RbNextRestore([l EXCEPT !.prod = None]))
    /\ UNCHANGED <<customers, orders, order_items, nextOrderId, nextItemId,
                   nextCustId>>

\* lines 76-78: created item i is deleted by its item_id
RbDeleteItem(c) ==
    LET l == proc[c]
        it == l.created_items[l.i]
    IN
    /\ l.pc = "rb_del_item"
    /\ \E f \in Fails :
          /\ Spend(f)
          /\ hist' = [hist EXCEPT ![c].attempted = @ \cup {<<"item", it.item_id>>},
                                  ![c].rbFail = IF f THEN <<"delete order_items">> ELSE @]
          /\ IF f THEN Goto(c, RollbackFailed(l, "delete order_items"))
                       /\ UNCHANGED order_items
             ELSE /\ order_items' = {r \in order_items : r.item_id # it.item_id}
                  /\ IF l.i < Len(l.created_items)
                     THEN Goto(c, [l EXCEPT !.i = l.i + 1])
                     ELSE Goto(c, RbOrder(l))
    /\ UNCHANGED <<customers, products, orders, nextOrderId, nextItemId, nextCustId>>

\* lines 79-80, and line 84
RbDeleteOrder(c) ==
    LET l == proc[c]
        id == l.created_order[1].order_id
    IN
    /\ l.pc = "rb_del_order"
    /\ \E f \in Fails :
          /\ Spend(f)
          /\ hist' = [hist EXCEPT ![c].attempted = @ \cup {<<"order", id>>},
                                  ![c].rbFail = IF f THEN <<"delete orders">> ELSE @]
          /\ IF f THEN Goto(c, RollbackFailed(l, "delete orders")) /\ UNCHANGED orders
             ELSE /\ orders' = {r \in orders : r.order_id # id}
                  /\ Goto(c, RaiseOriginal(l))
    /\ UNCHANGED <<customers, products, order_items, nextOrderId, nextItemId,
                   nextCustId>>

\* the steps of a create_order that meets no failure
CreateOrder(c) ==
    \/ CallCreateOrder(c)
    \/ CoGetCustomer(c)
    \/ CoValidateLine(c)
    \/ CoInsertOrder(c)
    \/ CoSelectOrder(c)
    \/ CoInsertItems(c)
    \/ CoSelectItems(c)
    \/ CoDecRead(c)
    \/ CoDecWrite(c)

\* the steps of the handler of lines 64-84
Compensate(c) ==
    \/ RbRead(c)
    \/ RbWrite(c)
    \/ RbDeleteItem(c)
    \/ RbDeleteOrder(c)

-----------------------------------------------------------------------------
(* order_service.cancel_order                                              *)

\* the status check left out
CancellableAlways(status) == TRUE

\* line 99: only an order in status PLACED is cancelled
Cancellable(status) == status = "PLACED"

\* the stock overwritten with the item's quantity
CancelStockOverwrite(stock, qty) == qty

\* line 106: the stock written for one item
CancelStock(stock, qty) == stock + qty

\* the failure reaching the caller as it is
CancelFailedUnwrapped(l, e) == Raise(l, "Exception", e)

\* lines 111-112: a failure inside the try is wrapped
CancelFailed(l, e) == Raise(l, "OrderError", e)

\* the next item of the loop of lines 103-107, or line 109 after the last
CaNextItem(l) ==
    IF l.i < Len(l.items) THEN [l EXCEPT !.pc = "ca_read", !.i = l.i + 1]
    ELSE [l EXCEPT !.pc = "ca_update_status"]

\* lines 99-103 once get_order has returned the order with its items
CancelCheck(l) ==
    IF ~Cancellable(l.order[1].status)
    THEN Raise(l, "OrderError", "Only orders in PLACED status can be cancelled")
    ELSE IF l.items = <<>> THEN [l EXCEPT !.pc = "ca_update_status"]
    ELSE [l EXCEPT !.pc = "ca_read", !.i = 1]

CallCancelOrder(c) ==
    /\ proc[c].pc = "idle"
    /\ \E order_id \in ReqOrderIds :
          Goto(c, [Idle EXCEPT !.op = "cancel_order", !.pc = "ca_select_order",
                               !.order_id = order_id])
    /\ Begin(c)
    /\ UNCHANGED <<customers, products, orders, order_items, nextOrderId,
                   nextItemId, nextCustId, faults>>

\* order_dao.get_order, r1 (lines 34-37), and lines 97-98
CaSelectOrder(c) ==
    LET l == proc[c] IN
    /\ l.pc = "ca_select_order"
    /\ \E f \in Fails :
          /\ Spend(f)
          /\ IF f THEN Goto(c, Raise(l, "Exception", "select orders"))
             ELSE LET row == SelectOrder(l.order_id)
                  IN IF row = None THEN Goto(c, Raise(l, "OrderError", "Order not found"))
                     ELSE Goto(c, [l EXCEPT !.order = row, !.pc = "ca_select_items"])
    /\ UNCHANGED <<customers, products, orders, order_items, nextOrderId,
                   nextItemId, nextCustId, hist>>

\* order_dao.get_order, r2 (lines 39-41), and lines 99-103
CaSelectItems(c) ==
    LET l == proc[c] IN
    /\ l.pc = "ca_select_items"
    /\ \E f \in Fails :
          /\ Spend(f)
          /\ IF f THEN Goto(c, Raise(l, "Exception", "select order_items"))
             ELSE Goto(c, CancelCheck([l EXCEPT !.items = SelectItems(l.order_id)]))
    /\ UNCHANGED <<customers, products, orders, order_items, nextOrderId,
                   nextItemId, nextCustId, hist>>

\* lines 104-105: the product of item i is read
CaRead(c) ==
    LET l == proc[c] IN
    /\ l.pc = "ca_read"
    /\ \E f \in Fails :
          /\ Spend(f)
          /\ IF f THEN Goto(c, CancelFailed(l, "get_product_by_id"))
             ELSE LET prod == get_product_by_id(l.items[l.i].prod_id)
                  IN IF prod = None THEN Goto(c, CaNextItem(l))
                     ELSE Goto(c, [l EXCEPT !.prod = prod, !.pc = "ca_write"])
    /\ UNCHANGED <<customers, products, orders, order_items, nextOrderId,
                   nextItemId, nextCustId, hist>>

\* lines 106-107: the stock with the item's quantity added is written
CaWrite(c) ==
    LET l == proc[c]
        it == l.items[l.i]
    IN
    /\ l.pc = "ca_write"
    /\ \E f \in Fails :
          /\ Spend(f)
          /\ IF f THEN Goto(c, CancelFailed(l, "update_product")) /\ UNCHANGED products
             ELSE /\ products' = update_product_stock(
                                     it.prod_id, CancelStock(l.prod[1].stock, it.quantity))
                  /\ Goto(c, CaNextItem([l EXCEPT !.prod = None]))
    /\ UNCHANGED <<customers, orders, order_items, nextOrderId, nextItemId,
                   nextCustId, hist>>

\* order_dao.update_order_status, the update (line 48)
CaUpdateStatus(c) ==
    LET l == proc[c] IN
    /\ l.pc = "ca_update_status"
    /\ \E f \in Fails :
          /\ Spend(f)
          /\ IF f THEN Goto(c, CancelFailed(l, "update orders")) /\ UNCHANGED orders
             ELSE /\ orders' = {IF r.order_id = l.order_id
                                 THEN [r EXCEPT !.status = "CANCELLED"] ELSE r : r \in orders}
                  /\ Goto(c, [l EXCEPT !.pc = "ca_select_updated"])
    /\ UNCHANGED <<customers, products, order_items, nextOrderId, nextItemId,
                   nextCustId, hist>>

\* order_dao.update_order_status, the re-read (lines 49-50), and line 110
CaSelectUpdated(c) ==
    LET l == proc[c] IN
    /\ l.pc = "ca_select_updated"
    /\ \E f \in Fails :
          /\ Spend(f)
          /\ IF f THEN Goto(c, CancelFailed(l, "select orders"))
             ELSE Goto(c, Return(l, SelectOrder(l.order_id), <<>>))
    /\ UNCHANGED <<customers, products, orders, order_items, nextOrderId,
                   nextItemId, nextCustId, hist>>

CancelOrder(c) ==
    \/ CallCancelOrder(c)
    \/ CaSelectOrder(c)
    \/ CaSelectItems(c)
    \/ CaRead(c)
    \/ CaWrite(c)
    \/ CaUpdateStatus(c)
    \/ CaSelectUpdated(c)

-----------------------------------------------------------------------------
(* order_service.get_order_details                                         *)

\* the order returned only when its customer row is found
AttachCustomerRequired(l, cust) ==
    IF cust = None THEN Raise(l, "OrderError", "Customer not found")
    ELSE [l EXCEPT !.pc = "done",
                   !.result = [kind |-> "ok", cause |-> "", row |-> l.order,
                               items |-> l.items, customer |-> cust]]

\* lines 92-93: the order, its items and the customer row read for it
\* (absent: None) are returned
AttachCustomer(l, cust) ==
    [l EXCEPT !.pc = "done",
              !.result = [kind |-> "ok", cause |-> "", row |-> l.order,
                          items |-> l.items, customer |-> cust]]

CallGetOrderDetails(c) ==
    /\ proc[c].pc = "idle"
    /\ \E order_id \in ReqOrderIds :
          Goto(c, [Idle EXCEPT !.op = "get_order_details", !.pc = "gd_select_order",
                               !.order_id = order_id])
    /\ Begin(c)
    /\ UNCHANGED <<customers, products, orders, order_items, nextOrderId,
                   nextItemId, nextCustId, faults>>

\* order_dao.get_order, r1 (lines 34-37), and order_service lines 88-89
GdSelectOrder(c) ==
    LET l == proc[c] IN
    /\ l.pc = "gd_select_order"
    /\ \E f \in Fails :
          /\ Spend(f)
          /\ IF f THEN Goto(c, Raise(l, "Exception", "select orders"))
             ELSE LET row == SelectOrder(l.order_id)
                  IN IF row = None THEN Goto(c, Raise(l, "OrderError", "Order not found"))
                     ELSE Goto(c, [l EXCEPT !.order = row, !.pc = "gd_select_items"])
    /\ UNCHANGED <<customers, products, orders, order_items, nextOrderId,
                   nextItemId, nextCustId, hist>>

\* order_dao.get_order, r2 (lines 39-41)
GdSelectItems(c) ==
    LET l == proc[c] IN
    /\ l.pc = "gd_select_items"
    /\ \E f \in Fails :
          /\ Spend(f)
          /\ IF f THEN Goto(c, Raise(l, "Exception", "select order_items"))
             ELSE Goto(c, [l EXCEPT !.items = SelectItems(l.order_id),
                                    !.pc = "gd_customer"])
    /\ UNCHANGED <<customers, products, orders, order_items, nextOrderId,
                   nextItemId, nextCustId, hist>>

\* order_service lines 91-93
GdGetCustomer(c) ==
    LET l == proc[c] IN
    /\ l.pc = "gd_customer"
    /\ \E f \in Fails :
          /\ Spend(f)
          /\ IF f THEN Goto(c, Raise(l, "Exception", "select customers"))
             ELSE Goto(c, AttachCustomer(l, get_customer_by_id(l.order[1].cust_id)))
    /\ UNCHANGED <<customers, products, orders, order_items, nextOrderId,
                   nextItemId, nextCustId, hist>>

GetOrderDetails(c) ==
    \/ CallGetOrderDetails(c)
    \/ GdSelectOrder(c)
    \/ GdSelectItems(c)
    \/ GdGetCustomer(c)

-----------------------------------------------------------------------------
(* A product's price is changed (product_dao.update_product, one round     *)
(* trip of a caller that runs nothing else).                               *)

SetPrice(c) ==
    /\ proc[c].pc = "idle"
    /\ \E prod_id \in ProdIds, price \in Prices :
          /\ get_product_by_id(prod_id)[1].price # price
          /\ products' = update_product_price(prod_id, price)
    /\ UNCHANGED <<customers, orders, order_items, nextOrderId, nextItemId,
                   nextCustId, proc, faults, hist>>

-----------------------------------------------------------------------------
(* customer_service and customer_dao.  A string is the sequence of its     *)
(* characters; a column that holds no value holds Null.                    *)

Null == <<"NULL">>

RECURSIVE LStrip(_)
LStrip(str) == IF str # <<>> /\ Head(str) = " " THEN LStrip(Tail(str)) ELSE str

RECURSIVE RStrip(_)
RStrip(str) ==
    IF str # <<>> /\ str[Len(str)] = " " THEN RStrip(SubSeq(str, 1, Len(str) - 1))
    ELSE str

\* str.strip()
Strip(str) == LStrip(RStrip(str))

\* customer_dao.get_customer_by_email: select * where email = email limit 1
get_customer_by_email(email) ==
    LET m == {r \in customers : r.email = email}
    IN IF m = {} THEN None ELSE <<CHOOSE r \in m : \A q \in m : r.cust_id <= q.cust_id>>

\* the orders of the customer that are PLACED
list_placed_orders_by_customer(cust_id) ==
    {r \in orders : r.cust_id = cust_id /\ r.status = "PLACED"}

\* order_dao.list_orders_by_customer: the orders of the customer, of any status
list_orders_by_customer(cust_id) == {r \in orders : r.cust_id = cust_id}

\* the test of line 91 with the comparison of the ids turned around
EmailConflictSelf(other, cust_id) == other # None /\ other[1].cust_id = cust_id

\* customer_service line 91: the email is held by another customer
EmailConflict(other, cust_id) == other # None /\ other[1].cust_id # cust_id

\* customer_service line 46: the email is held
EmailTaken(existing) == existing # None

Names == {<<>>, <<" ">>, <<"n">>}
Emails == {<<>>, <<"a">>, <<" ", "a">>, <<"b">>, <<"b", " ">>}
Phones == {<<>>, <<"p">>}

\* the requests of update_customer: fields, as the list of its (key, value)
\* pairs in their order; a value of Null is None
FieldLists ==
    {<<>>} \cup {<<[k |-> "email", v |-> e]>> : e \in Emails \cup {Null}}
           \cup {<<[k |-> "name", v |-> <<"m">>]>>, <<[k |-> "role", v |-> <<"x">>]>>}
           \cup {<<[k |-> "phone", v |-> <<" ">>], [k |-> "email", v |-> e]>> : e \in {<<"a">>, <<"b">>}}

CallRegisterCustomer(c) ==
    /\ proc[c].pc = "idle"
    /\ nextCustId <= MaxCustomers
    /\ \E name \in Names, email \in Emails, phone \in Phones :
          LET l == [Idle EXCEPT !.op = "register_customer", !.name = name,
                                !.email = email, !.phone = phone]
          IN \* lines 37-42
             IF Strip(name) = <<>> THEN Goto(c, Raise(l, "CustomerError", "Name is required"))
             ELSE IF Strip(email) = <<>>
                  THEN Goto(c, Raise(l, "CustomerError", "Email is required"))
             ELSE IF Strip(phone) = <<>>
                  THEN Goto(c, Raise(l, "CustomerError", "Phone is required"))
             ELSE Goto(c, [l EXCEPT !.pc = "rc_by_email"])
    /\ Begin(c)
    /\ UNCHANGED <<customers, products, orders, order_items, nextOrderId,
                   nextItemId, nextCustId, faults>>

\* customer_service lines 45-47
RcByEmail(c) ==
    LET l == proc[c] IN
    /\ l.pc = "rc_by_email"
    /\ \E f \in Fails :
          /\ Spend(f)
          /\ IF f THEN Goto(c, Raise(l, "Exception", "select customers"))
             ELSE LET existing == get_customer_by_email(Strip(l.email))
                  IN IF EmailTaken(existing)
                     THEN Goto(c, [Raise(l, "CustomerExistsError", "already exists")
                                      EXCEPT !.result.row = existing])
                     ELSE Goto(c, [l EXCEPT !.pc = "rc_insert"])
    /\ UNCHANGED <<customers, products, orders, order_items, nextOrderId,
                   nextItemId, nextCustId, hist>>

\* customer_dao.create_customer, the insert (lines 8-13)
RcInsert(c) ==
    LET l == proc[c] IN
    /\ l.pc = "rc_insert"
    /\ \E f \in Fails :
          /\ Spend(f)
          /\ IF f THEN /\ Goto(c, Raise(l, "Exception", "insert customers"))
                       /\ UNCHANGED <<customers, nextCustId>>
             ELSE /\ customers' = customers \cup
                        {[cust_id |-> nextCustId, name |-> Strip(l.name),
                          email |-> Strip(l.email), phone |-> Strip(l.phone)]}
                  /\ nextCustId' = nextCustId + 1
                  /\ Goto(c, [l EXCEPT !.pc = "rc_select"])
    /\ UNCHANGED <<products, orders, order_items, nextOrderId, nextItemId, hist>>

\* customer_dao.create_customer, the re-read (lines 15-16), and
\* customer_service lines 51-53
RcSelect(c) ==
    LET l == proc[c] IN
    /\ l.pc = "rc_select"
    /\ \E f \in Fails :
          /\ Spend(f)
          /\ IF f THEN Goto(c, Raise(l, "Exception", "select customers"))
             ELSE LET created == get_customer_by_email(Strip(l.email))
                  IN IF created = None
                     THEN Goto(c, Raise(l, "CustomerError", "Failed to create customer"))
                     ELSE Goto(c, Return(l, created, <<>>))
    /\ UNCHANGED <<customers, products, orders, order_items, nextOrderId,
                   nextItemId, nextCustId, hist>>

RegisterCustomer(c) ==
    \/ CallRegisterCustomer(c)
    \/ RcByEmail(c)
    \/ RcInsert(c)
    \/ RcSelect(c)

Allowed == {"name", "email", "phone"}

\* the update of one column in the dict updates (a list of pairs, one per key)
SetKey(updates, k, v) ==
    IF \E j \in 1..Len(updates) : updates[j].k = k
    THEN [j \in 1..Len(updates) |->
             IF updates[j].k = k THEN [k |-> k, v |-> v] ELSE updates[j]]
    ELSE Append(updates, [k |-> k, v |-> v])

\* customer_service lines 101-104 after the last field
AfterFields(l) ==
    IF l.updates = <<>> THEN Return(l, l.cust, <<>>)
    ELSE [l EXCEPT !.pc = "uc_update"]

RECURSIVE UpdateLoop(_)
\* customer_service lines 78-99 from field i on, up to the round trip of
\* line 90, a raise, or the end of the loop
UpdateLoop(l) ==
    IF l.i > Len(l.fields) THEN AfterFields(l)
    ELSE LET k == l.fields[l.i].k
             v == l.fields[l.i].v
             next == [l EXCEPT !.i = l.i + 1]
         IN IF k \notin Allowed THEN UpdateLoop(next)
            ELSE IF v = Null
                 THEN UpdateLoop([next EXCEPT !.updates = SetKey(@, k, Null)])
            ELSE IF k = "email"
                 THEN IF Strip(v) = <<>>
                      THEN Raise(l, "CustomerError", "Email cannot be empty")
                      ELSE [l EXCEPT !.pc = "uc_by_email"]
            ELSE IF k = "phone" /\ Strip(v) = <<>>
                 THEN Raise(l, "CustomerError", "Phone cannot be empty")
            ELSE UpdateLoop([next EXCEPT !.updates = SetKey(@, k, Strip(v))])

CallUpdateCustomer(c) ==
    /\ proc[c].pc = "idle"
    /\ \E cust_id \in ReqCustIds, fields \in FieldLists :
          Goto(c, [Idle EXCEPT !.op = "update_customer", !.pc = "uc_by_id",
                               !.cust_id = cust_id, !.fields = fields])
    /\ Begin(c)
    /\ UNCHANGED <<customers, products, orders, order_items, nextOrderId,
                   nextItemId, nextCustId, faults>>

\* customer_service lines 72-74, and the loop is entered
UcById(c) ==
    LET l == proc[c] IN
    /\ l.pc = "uc_by_id"
    /\ \E f \in Fails :
          /\ Spend(f)
          /\ IF f THEN Goto(c, Raise(l, "Exception", "select customers"))
             ELSE LET cust == get_customer_by_id(l.cust_id)
                  IN IF cust = None
                     THEN Goto(c, Raise(l, "CustomerNotFoundError", "Customer not found"))
                     ELSE Goto(c, UpdateLoop([l EXCEPT !.cust = cust, !.i = 1]))
    /\ UNCHANGED <<customers, products, orders, order_items, nextOrderId,
                   nextItemId, nextCustId, hist>>

\* customer_service lines 90-93 for the email field i, and the loop goes on
UcByEmail(c) ==
    LET l == proc[c]
        val == Strip(l.fields[l.i].v)
    IN
    /\ l.pc = "uc_by_email"
    /\ \E f \in Fails :
          /\ Spend(f)
          /\ IF f THEN Goto(c, Raise(l, "Exception", "select customers"))
             ELSE LET other == get_customer_by_email(val)
                  IN IF EmailConflict(other, l.cust_id)
                     THEN Goto(c, [Raise(l, "CustomerExistsError", "already used")
                                      EXCEPT !.result.row = other])
                     ELSE Goto(c, UpdateLoop([l EXCEPT !.updates = SetKey(@, "email", val),
                                                       !.i = l.i + 1]))
    /\ UNCHANGED <<customers, products, orders, order_items, nextOrderId,
                   nextItemId, nextCustId, hist>>

\* the row r with the columns of updates set
Updated(r, updates) ==
    [col \in DOMAIN r |->
        IF \E j \in 1..Len(updates) : updates[j].k = col
        THEN (CHOOSE u \in {updates[j] : j \in 1..Len(updates)} : u.k = col).v
        ELSE r[col]]

\* customer_dao.update_customer, the update (line 27)
UcUpdate(c) ==
    LET l == proc[c] IN
    /\ l.pc = "uc_update"
    /\ \E f \in Fails :
          /\ Spend(f)
          /\ IF f THEN Goto(c, Raise(l, "Exception", "update customers"))
                       /\ UNCHANGED customers
             ELSE /\ customers' = {IF r.cust_id = l.cust_id THEN Updated(r, l.updates)
                                    ELSE r : r \in customers}
                  /\ Goto(c, [l EXCEPT !.pc = "uc_select"])
    /\ UNCHANGED <<products, orders, order_items, nextOrderId, nextItemId,
                   nextCustId, hist>>

\* customer_dao.update_customer, the re-read (lines 28-29), and
\* customer_service lines 105-107
UcSelect(c) ==
    LET l == proc[c] IN
    /\ l.pc = "uc_select"
    /\ \E f \in Fails :
          /\ Spend(f)
          /\ IF f THEN Goto(c, Raise(l, "Exception", "select customers"))
             ELSE LET updated == get_customer_by_id(l.cust_id)
                  IN IF updated = None
                     THEN Goto(c, Raise(l, "CustomerError", "Failed to update customer"))
                     ELSE Goto(c, Return(l, updated, <<>>))
    /\ UNCHANGED <<customers, products, orders, order_items, nextOrderId,
                   nextItemId, nextCustId, hist>>

UpdateCustomer(c) ==
    \/ CallUpdateCustomer(c)
    \/ UcById(c)
    \/ UcByEmail(c)
    \/ UcUpdate(c)
    \/ UcSelect(c)

CallRemoveCustomer(c) ==
    /\ proc[c].pc = "idle"
    /\ \E cust_id \in ReqCustIds :
          Goto(c, [Idle EXCEPT !.op = "remove_customer", !.pc = "rm_by_id",
                               !.cust_id = cust_id])
    /\ Begin(c)
    /\ UNCHANGED <<customers, products, orders, order_items, nextOrderId,
                   nextItemId, nextCustId, faults>>

\* customer_service lines 122-124
RmById(c) ==
    LET l == proc[c] IN
    /\ l.pc = "rm_by_id"
    /\ \E f \in Fails :
          /\ Spend(f)
          /\ IF f THEN Goto(c, Raise(l, "Exception", "select customers"))
             ELSE LET cust == get_customer_by_id(l.cust_id)
                  IN IF cust = None
                     THEN Goto(c, Raise(l, "CustomerNotFoundError", "Customer not found"))
                     ELSE Goto(c, [l EXCEPT !.cust = cust, !.pc = "rm_list_orders"])
    /\ UNCHANGED <<customers, products, orders, order_items, nextOrderId,
                   nextItemId, nextCustId, hist>>

\* customer_service lines 126-128
RmListOrders(c) ==
    LET l == proc[c] IN
    /\ l.pc = "rm_list_orders"
    /\ \E f \in Fails :
          /\ Spend(f)
          /\ IF f THEN Goto(c, Raise(l, "Exception", "select orders"))
             ELSE IF list_orders_by_customer(l.cust_id) # {}
                  THEN Goto(c, Raise(l, "CustomerDeleteError", "customer has orders"))
             ELSE Goto(c, [l EXCEPT !.pc = "rm_select"])
    /\ UNCHANGED <<customers, products, orders, order_items, nextOrderId,
                   nextItemId, nextCustId, hist>>

\* customer_dao.delete_customer, the read of the row to return (lines 32-33)
RmSelect(c) ==
    LET l == proc[c] IN
    /\ l.pc = "rm_select"
    /\ \E f \in Fails :
          /\ Spend(f)
          /\ IF f THEN Goto(c, Raise(l, "Exception", "select customers"))
             ELSE Goto(c, [l EXCEPT !.cust = get_customer_by_id(l.cust_id),
                                    !.pc = "rm_delete"])
    /\ UNCHANGED <<customers, products, orders, order_items, nextOrderId,
                   nextItemId, nextCustId, hist>>

\* customer_dao.delete_customer, the delete (lines 34-35), and
\* customer_service lines 131-133
RmDelete(c) ==
    LET l == proc[c] IN
    /\ l.pc = "rm_delete"
    /\ \E f \in Fails :
          /\ Spend(f)
          /\ IF f THEN Goto(c, Raise(l, "Exception", "delete customers"))
                       /\ UNCHANGED customers
             ELSE /\ customers' = {r \in customers : r.cust_id # l.cust_id}
                  /\ IF l.cust = None
                     THEN Goto(c, Raise(l, "CustomerError", "Failed to delete customer"))
                     ELSE Goto(c, Return(l, l.cust, <<>>))
    /\ UNCHANGED <<products, orders, order_items, nextOrderId, nextItemId,
                   nextCustId, hist>>

RemoveCustomer(c) ==
    \/ CallRemoveCustomer(c)
    \/ RmById(c)
    \/ RmListOrders(c)
    \/ RmSelect(c)
    \/ RmDelete(c)

-----------------------------------------------------------------------------
(* customer_service.list_customers                                         *)

Limits == {1, 2, 100}

RECURSIVE CustomerList(_)
\* customer rows as the list the store returns, ascending cust_id
CustomerList(S) ==
    IF S = {} THEN <<>>
    ELSE LET r == CHOOSE x \in S : \A y \in S : x.cust_id <= y.cust_id
         IN <<r>> \o CustomerList(S \ {r})

\* customer_dao line 38, the select: order by cust_id ascending, limit
SelectCustomers(limit) ==
    LET all == CustomerList(customers)
    IN IF Len(all) <= limit THEN all ELSE SubSeq(all, 1, limit)

\* customer_dao lines 37-38: resp is assigned and the function ends without
\* a return statement, so the value of the call is None whatever resp holds
ListCustomersValue(resp) == [returned |-> "None", rows |-> <<>>]

CallListCustomers(c) ==
    /\ proc[c].pc = "idle"
    /\ \E limit \in Limits :
          Goto(c, [Idle EXCEPT !.op = "list_customers", !.pc = "lc_select",
                               !.n = limit])
    /\ Begin(c)
    /\ UNCHANGED <<customers, products, orders, order_items, nextOrderId,
                   nextItemId, nextCustId, faults>>

\* customer_dao lines 37-38, and customer_service line 148
LcSelect(c) ==
    LET l == proc[c] IN
    /\ l.pc = "lc_select"
    /\ \E f \in Fails :
          /\ Spend(f)
          /\ IF f THEN Goto(c, Raise(l, "Exception", "select customers"))
             ELSE LET v == ListCustomersValue(SelectCustomers(l.n))
                  IN Goto(c, [l EXCEPT !.pc = "done",
                                       !.result = [kind |-> "ok", cause |-> "",
                                                   row |-> None, items |-> v.rows,
                                                   returned |-> v.returned]])
    /\ UNCHANGED <<customers, products, orders, order_items, nextOrderId,
                   nextItemId, nextCustId, hist>>

ListCustomers(c) ==
    \/ CallListCustomers(c)
    \/ LcSelect(c)

-----------------------------------------------------------------------------
(* Initial states and specifications.                                      *)

InitTables ==
    /\ customers = {[cust_id |-> 1, name |-> <<"n">>, email |-> <<"a">>, phone |-> <<"p">>]}
    /\ products = {[prod_id |-> 1, price |-> 1, stock |-> 2],
                   [prod_id |-> 2, price |-> 2, stock |-> 1]}
    /\ orders = {}
    /\ order_items = {}
    /\ nextOrderId = 1
    /\ nextItemId = 1
    /\ nextCustId = 2

InitCallers(cs) ==
    /\ proc = [c \in cs |-> Idle]
    /\ hist = [c \in cs |-> NoHist]

\* one caller, a store that never fails
Init == InitTables /\ InitCallers({1}) /\ faults = 0

OneCaller == {1}

Next == \E c \in OneCaller : CreateOrder(c) \/ CancelOrder(c) \/ Finish(c)

Spec == Init /\ [][Next]_vars

\* one caller, a store that never fails, create_order only
NextCreate == \E c \in OneCaller : CreateOrder(c) \/ Finish(c)

SpecCreate == Init /\ [][NextCreate]_vars

\* one caller, a store that never fails, prices that change between calls
NextPrice == \E c \in OneCaller : CreateOrder(c) \/ SetPrice(c) \/ Finish(c)

SpecPrice == Init /\ [][NextPrice]_vars

\* the customer operations of one caller on a store that never fails; the
\* first customer owns no order, an order that is PLACED or one that is
\* CANCELLED
InitCustomers ==
    /\ customers = {[cust_id |-> 1, name |-> <<"n">>, email |-> <<"a">>, phone |-> <<"p">>]}
    /\ \E st \in {"none", "PLACED", "CANCELLED"} :
          /\ products = {[prod_id |-> 1, price |-> 1,
                          stock |-> IF st = "PLACED" THEN 1 ELSE 2],
                         [prod_id |-> 2, price |-> 2, stock |-> 1]}
          /\ orders = IF st = "none" THEN {}
                      ELSE {[order_id |-> 1, cust_id |-> 1, total_amount |-> 1,
                             status |-> st, order_date |-> 1]}
          /\ order_items = IF st = "none" THEN {}
                           ELSE {[item_id |-> 1, order_id |-> 1, prod_id |-> 1,
                                  quantity |-> 1, price |-> 1]}
          /\ nextOrderId = IF st = "none" THEN 1 ELSE 2
          /\ nextItemId = IF st = "none" THEN 1 ELSE 2
    /\ nextCustId = 2
    /\ InitCallers({1})
    /\ faults = 0

NextCustomers ==
    \E c \in OneCaller :
        RegisterCustomer(c) \/ UpdateCustomer(c) \/ RemoveCustomer(c) \/ Finish(c)

SpecCustomers == InitCustomers /\ [][NextCustomers]_vars

\* one caller, a store of which up to MaxFaults round trips fail
InitFault == InitTables /\ InitCallers({1}) /\ faults = MaxFaults

NextFault == \E c \in OneCaller : CreateOrder(c) \/ Compensate(c) \/ Finish(c)

SpecFault == InitFault /\ [][NextFault]_vars

\* the tables left by create_order(1, [(1, 1), (p, 1)]) on InitTables
PlacedOrderTables ==
    /\ \E p \in ProdIds :
          /\ products = {[prod_id |-> 1, price |-> 1, stock |-> IF p = 1 THEN 0 ELSE 1],
                         [prod_id |-> 2, price |-> 2, stock |-> IF p = 2 THEN 0 ELSE 1]}
          /\ orders = {[order_id |-> 1, cust_id |-> 1, total_amount |-> 1 + p,
                        status |-> "PLACED", order_date |-> 1]}
          /\ order_items = {[item_id |-> 1, order_id |-> 1, prod_id |-> 1,
                             quantity |-> 1, price |-> 1],
                            [item_id |-> 2, order_id |-> 1, prod_id |-> p,
                             quantity |-> 1, price |-> p]}
    /\ customers = {[cust_id |-> 1, name |-> <<"n">>, email |-> <<"a">>, phone |-> <<"p">>]}
    /\ nextOrderId = 2
    /\ nextItemId = 3
    /\ nextCustId = 2

\* one caller cancelling, a store of which up to MaxFaults round trips fail
InitCancelFault == PlacedOrderTables /\ InitCallers({1}) /\ faults = MaxFaults

NextCancelFault == \E c \in OneCaller : CancelOrder(c) \/ Finish(c)

SpecCancelFault == InitCancelFault /\ [][NextCancelFault]_vars

TwoCallers == {1, 2}

\* two callers interleaved between store round trips, a store that never
\* fails
InitRace == InitTables /\ InitCallers(TwoCallers) /\ faults = 0

\* create_order as the racing callers use it: each caller calls it once, for
\* customer 1; the lines of a request order one piece each, of products 1
\* and 2 in turn
RaceCreateOrder(c) ==
    \/ CallCreateOrder(c) /\ hist[c] = NoHist /\ proc'[c].cust_id = 1
    \/ CoValidateLine(c) /\ LET k == Len(hist'[c].req)
                                it == hist'[c].req[k]
                            IN it.prod_id = 2 - (k % 2) /\ it.quantity = 1
    \/ CoGetCustomer(c)
    \/ CoInsertOrder(c)
    \/ CoSelectOrder(c)
    \/ CoInsertItems(c)
    \/ CoSelectItems(c)
    \/ CoDecRead(c)
    \/ CoDecWrite(c)

\* both create orders
NextCreateRace == \E c \in TwoCallers : RaceCreateOrder(c) \/ Finish(c)

SpecCreateRace == InitRace /\ [][NextCreateRace]_vars

\* orders are created while customers are removed
NextRemoveRace ==
    \E c \in TwoCallers : RaceCreateOrder(c) \/ RemoveCustomer(c) \/ Finish(c)

SpecRemoveRace == InitRace /\ [][NextRemoveRace]_vars

\* two callers cancelling, a store that never fails
InitCancelRace == PlacedOrderTables /\ InitCallers(TwoCallers) /\ faults = 0

NextCancelRace == \E c \in TwoCallers : CancelOrder(c) \/ Finish(c)

SpecCancelRace == InitCancelRace /\ [][NextCancelRace]_vars

\* one caller, a store that never fails, customers registered, removed and
\* listed
NextList ==
    \E c \in OneCaller :
        RegisterCustomer(c) \/ RemoveCustomer(c) \/ ListCustomers(c) \/ Finish(c)

SpecList == InitCustomers /\ [][NextList]_vars

\* one caller, a store that never fails, orders created, cancelled and read
\* back; the tables start with a customer and no order, or with a PLACED
\* order whose customer row is gone (remove_customer's check of the orders
\* ran before a create_order of the same customer inserted the order)
InitDetails ==
    /\ \E orphan \in BOOLEAN :
          /\ customers = IF orphan THEN {}
                         ELSE {[cust_id |-> 1, name |-> <<"n">>, email |-> <<"a">>,
                                phone |-> <<"p">>]}
          /\ products = {[prod_id |-> 1, price |-> 1,
                          stock |-> IF orphan THEN 1 ELSE 2],
                         [prod_id |-> 2, price |-> 2, stock |-> 1]}
          /\ orders = IF orphan
                      THEN {[order_id |-> 1, cust_id |-> 1, total_amount |-> 1,
                             status |-> "PLACED", order_date |-> 1]}
                      ELSE {}
          /\ order_items = IF orphan
                           THEN {[item_id |-> 1, order_id |-> 1, prod_id |-> 1,
                                  quantity |-> 1, price |-> 1]}
                           ELSE {}
          /\ nextOrderId = IF orphan THEN 2 ELSE 1
          /\ nextItemId = IF orphan THEN 2 ELSE 1
    /\ nextCustId = 2
    /\ InitCallers({1})
    /\ faults = 0

NextDetails ==
    \E c \in OneCaller :
        CreateOrder(c) \/ CancelOrder(c) \/ GetOrderDetails(c) \/ Finish(c)

SpecDetails == InitDetails /\ [][NextDetails]_vars

-----------------------------------------------------------------------------
(* Properties.                                                             *)

Quiescent == \A c \in Callers : proc[c].pc = "idle"

Done(c, op) == proc[c].op = op /\ proc[c].pc = "done"

Stock(prods, prod_id) == (CHOOSE r \in prods : r.prod_id = prod_id).stock

Price(prods, prod_id) == (CHOOSE r \in prods : r.prod_id = prod_id).price

RECURSIVE SumRows(_, _)
\* the sum of quantity, or of quantity * price, over a set of item rows
SumRows(S, priced) ==
    IF S = {} THEN 0
    ELSE LET r == CHOOSE x \in S : TRUE
         IN (IF priced THEN r.quantity * r.price ELSE r.quantity)
            + SumRows(S \ {r}, priced)

ItemsOf(rows, order_id) == {r \in rows : r.order_id = order_id}

\* C1: after create_order calls that ran to completion, one caller and no
\* store failure, every product's stock is >= 0, also when a request names
\* the same product in more than one line.
C1_StockNeverNegative ==
    Quiescent => \A r \in products : r.stock >= 0

\* the request read so far cannot be admitted against the tables as they
\* were at the call
InvalidLine(h, it) ==
    \/ \A r \in h.pre.products : r.prod_id # it.prod_id
    \/ it.quantity <= 0
    \/ \E r \in h.pre.products : r.prod_id = it.prod_id /\ it.quantity > r.stock

InvalidRequest(c) ==
    \/ \A r \in hist[c].pre.customers : r.cust_id # proc[c].cust_id
    \/ \E k \in 1..Len(hist[c].req) : InvalidLine(hist[c], hist[c].req[k])

\* C2: a create_order whose customer is absent, or one of whose lines names
\* an absent product, a quantity <= 0 or more than the product's stock,
\* leaves every table as it was at the call and ends in OrderError.
C2_RejectionLeavesTables ==
    \A c \in Callers :
        (proc[c].op = "create_order" /\ InvalidRequest(c)) =>
            /\ Snapshot = hist[c].pre
            /\ proc[c].pc = "done" => proc[c].result.kind = "OrderError"

\* a second line is rejected for its stock, with an order already in the tables
C2_Witness ==
    \E c \in Callers :
        /\ Done(c, "create_order")
        /\ InvalidRequest(c)
        /\ Len(hist[c].req) = 2
        /\ proc[c].result.cause = "Out of stock"
        /\ orders # {}

DecrementFailure(c) ==
    hist[c].firstFail \in {<<"get_product_by_id">>, <<"update_product">>, <<"AttributeError">>}

\* C3: a store failure in the decrement phase, followed by a compensation
\* none of whose round trips fails, leaves orders, order_items and every
\* stock as they were at the call, and the caller gets an OrderError.
C3_CompensationRestores ==
    \A c \in Callers :
        (Done(c, "create_order") /\ DecrementFailure(c) /\ hist[c].rbFail = None) =>
            /\ orders = hist[c].pre.orders
            /\ order_items = hist[c].pre.order_items
            /\ products = hist[c].pre.products
            /\ proc[c].result.kind = "OrderError"

\* the write of the second line failed after the first line was decremented
C3_Witness ==
    \E c \in Callers :
        /\ Done(c, "create_order")
        /\ hist[c].firstFail = <<"update_product">>
        /\ hist[c].rbFail = None
        /\ Len(proc[c].updated_products) = 1
        /\ Len(proc[c].created_items) = 2
        /\ proc[c].result.kind = "OrderError"

\* the compensating round trips the handler has to attempt
RequiredCompensation(c) ==
    LET l == proc[c] IN
    {<<"restore", j>> : j \in 1..Len(l.updated_products)}
    \cup {<<"item", l.created_items[k].item_id>> : k \in 1..Len(l.created_items)}
    \cup {<<"order", l.created_order[k].order_id>> : k \in 1..Len(l.created_order)}

\* C4: every compensating action is attempted, whichever of them fail.
C4_EachCompensationAttempted ==
    \A c \in Callers :
        (Done(c, "create_order") /\ hist[c].firstFail # None) =>
            RequiredCompensation(c) \subseteq hist[c].attempted

\* C5: when a step from the order insert onward fails, the caller gets an
\* OrderError that carries that first failure, whatever the compensation did.
C5_OriginalFailureSurfaces ==
    \A c \in Callers :
        (Done(c, "create_order") /\ hist[c].firstFail # None) =>
            /\ proc[c].result.kind = "OrderError"
            /\ proc[c].result.cause = hist[c].firstFail[1]

\* a compensating round trip failed with another failure than the first
C5_Witness ==
    \E c \in Callers :
        /\ Done(c, "create_order")
        /\ hist[c].firstFail # None
        /\ hist[c].rbFail # None
        /\ hist[c].rbFail # hist[c].firstFail

\* C6: a created order's persisted total is the sum of quantity * price of
\* its persisted items, each item carries the price its product had when
\* the call validated it, and a later price change alters neither.
C6_TotalAndPriceCaptured ==
    /\ \A c \in Callers :
          proc[c].pc \in {"idle", "done"} =>
              \A o \in orders :
                  o.total_amount = SumRows(ItemsOf(order_items, o.order_id), TRUE)
    /\ \A c \in Callers :
          (Done(c, "create_order") /\ proc[c].result.kind = "ok") =>
              LET its == SelectItems(proc[c].result.row[1].order_id)
                  rq == hist[c].req
              IN /\ Len(its) = Len(rq)
                 /\ \A k \in 1..Len(its) :
                       /\ its[k].prod_id = rq[k].prod_id
                       /\ its[k].quantity = rq[k].quantity
                       /\ its[k].price = Price(hist[c].pre.products, rq[k].prod_id)

\* an order of two items is persisted and the price of one of its products
\* has changed since
C6_Witness ==
    /\ Quiescent
    /\ \E o \in orders :
          /\ Cardinality(ItemsOf(order_items, o.order_id)) = 2
          /\ \E r \in ItemsOf(order_items, o.order_id) :
                r.price # Price(products, r.prod_id)

PlacedAtCall(c) ==
    \E o \in hist[c].pre.orders : o.order_id = proc[c].order_id /\ o.status = "PLACED"

\* C7: cancel_order of a PLACED order adds to each product's stock the
\* quantities of the order's items for it, leaves the other stocks alone
\* and sets the status to CANCELLED.
C7_CancelRestoresStock ==
    \A c \in Callers :
        (Done(c, "cancel_order") /\ PlacedAtCall(c)) =>
            /\ proc[c].result.kind = "ok"
            /\ \A r \in products :
                  r.stock = Stock(hist[c].pre.products, r.prod_id)
                            + SumRows({x \in ItemsOf(order_items, proc[c].order_id) :
                                          x.prod_id = r.prod_id}, FALSE)
            /\ \A o \in orders : o.order_id = proc[c].order_id => o.status = "CANCELLED"
            /\ proc[c].result.row # None /\ proc[c].result.row[1].status = "CANCELLED"

\* an order with two items of one product was cancelled, another product exists
C7_Witness ==
    \E c \in Callers :
        /\ Done(c, "cancel_order")
        /\ PlacedAtCall(c)
        /\ \E x, y \in ItemsOf(order_items, proc[c].order_id) :
              x # y /\ x.prod_id = y.prod_id
        /\ \E r \in products : r.prod_id = 1 /\ r.stock > Stock(hist[c].pre.products, 1)

\* C8: cancel_order of an order that is absent or not PLACED ends in
\* OrderError and changes no stock and no status.
C8_CancelRejected ==
    \A c \in Callers :
        (proc[c].op = "cancel_order" /\ ~PlacedAtCall(c)) =>
            /\ products = hist[c].pre.products
            /\ orders = hist[c].pre.orders
            /\ proc[c].pc = "done" => proc[c].result.kind = "OrderError"

\* a second cancel_order of an order that is CANCELLED was rejected
C8_Witness ==
    \E c \in Callers :
        /\ Done(c, "cancel_order")
        /\ \E o \in hist[c].pre.orders :
              /\ o.order_id = proc[c].order_id
              /\ o.status = "CANCELLED"
              /\ ItemsOf(order_items, o.order_id) # {}
        /\ proc[c].result.kind = "OrderError"

OwnsOrderAtCall(c) ==
    \E o \in hist[c].pre.orders : o.cust_id = proc[c].cust_id

RowsAtCall(c) == {r \in hist[c].pre.customers : r.cust_id = proc[c].cust_id}

\* C9: remove_customer of a customer that owns an order, of any status, ends
\* in CustomerDeleteError with the customers table as it was; of an existing
\* customer that owns none it deletes the row and returns the row as it was.
C9_RemoveCustomer ==
    \A c \in Callers :
        (proc[c].op = "remove_customer" /\ RowsAtCall(c) # {}) =>
            IF OwnsOrderAtCall(c)
            THEN /\ customers = hist[c].pre.customers
                 /\ proc[c].pc = "done" => proc[c].result.kind = "CustomerDeleteError"
            ELSE proc[c].pc = "done" =>
                    /\ proc[c].result.kind = "ok"
                    /\ {proc[c].result.row[1]} = RowsAtCall(c)
                    /\ customers = hist[c].pre.customers \ RowsAtCall(c)

\* the removal of a customer whose only order is CANCELLED was rejected
C9_Witness ==
    \E c \in Callers :
        /\ Done(c, "remove_customer")
        /\ RowsAtCall(c) # {}
        /\ OwnsOrderAtCall(c)
        /\ \A o \in hist[c].pre.orders : o.status = "CANCELLED"
        /\ proc[c].result.kind = "CustomerDeleteError"

UniqueEmails ==
    \A r1, r2 \in customers :
        (r1.cust_id # r2.cust_id /\ r1.email # Null) => r1.email # r2.email

HeldAtCall(c, email) == {r \in hist[c].pre.customers : r.email = email}

\* the call ended in CustomerExistsError naming a customer of holders and
\* wrote nothing
RejectedAsHeld(c, holders) ==
    /\ proc[c].result.kind = "CustomerExistsError"
    /\ proc[c].result.row # None
    /\ \E r \in holders : proc[c].result.row[1].cust_id = r.cust_id
    /\ customers = hist[c].pre.customers

\* field i of the update_customer request sets an email another customer holds
SetsHeldEmail(c, i) ==
    LET fl == proc[c].fields[i] IN
    /\ fl.k = "email"
    /\ fl.v # Null
    /\ \E r \in HeldAtCall(c, Strip(fl.v)) : r.cust_id # proc[c].cust_id

\* field j of the update_customer request is rejected for being blank
BlankField(c, j) ==
    LET fl == proc[c].fields[j] IN
    fl.k \in {"email", "phone"} /\ fl.v # Null /\ Strip(fl.v) = <<>>

\* C10 as stated: no two customers share an email; register_customer with
\* an email that is held, and update_customer setting an email another
\* customer holds, end in CustomerExistsError naming the holder, and write
\* nothing.
C10_Original ==
    /\ UniqueEmails
    /\ \A c \in Callers :
          (Done(c, "register_customer") /\ HeldAtCall(c, Strip(proc[c].email)) # {}) =>
              RejectedAsHeld(c, HeldAtCall(c, Strip(proc[c].email)))
    /\ \A c \in Callers :
          (Done(c, "update_customer")
             /\ \E i \in 1..Len(proc[c].fields) : SetsHeldEmail(c, i)) =>
              RejectedAsHeld(c, hist[c].pre.customers)

\* C10 as amended: no two customers share an email that is not null;
\* register_customer with a name and a phone that are not blank and an email
\* that is held, and update_customer of an existing customer setting an
\* email another customer holds, no earlier field of the request being
\* blank, end in CustomerExistsError naming the holder, and write nothing.
C10_UniqueEmail ==
    /\ UniqueEmails
    /\ \A c \in Callers :
          (Done(c, "register_customer")
             /\ Strip(proc[c].name) # <<>> /\ Strip(proc[c].phone) # <<>>
             /\ HeldAtCall(c, Strip(proc[c].email)) # {}) =>
              RejectedAsHeld(c, HeldAtCall(c, Strip(proc[c].email)))
    /\ \A c \in Callers :
          (Done(c, "update_customer") /\ RowsAtCall(c) # {}) =>
              \A i \in 1..Len(proc[c].fields) :
                  (SetsHeldEmail(c, i) /\ \A j \in 1..(i - 1) : ~BlankField(c, j)) =>
                      RejectedAsHeld(c, HeldAtCall(c, Strip(proc[c].fields[i].v)))

\* with two customers in the table, an update_customer that sets the email
\* of one to the email of the other was rejected
C10_Witness ==
    \E c \in Callers :
        /\ Done(c, "update_customer")
        /\ RowsAtCall(c) # {}
        /\ \E i \in 1..Len(proc[c].fields) : SetsHeldEmail(c, i)
        /\ proc[c].result.kind = "CustomerExistsError"
        /\ Cardinality(customers) = 2

OrderAtCall(c) == {o \in hist[c].pre.orders : o.order_id = proc[c].order_id}

\* C11: get_order_details changes no table; for an existing order it
\* returns the order row, all its item rows and the customer row of its
\* cust_id, absent when that row does not exist; for a missing id it ends in
\* OrderError.
C11_DetailsReadOnly ==
    \A c \in Callers :
        proc[c].op = "get_order_details" =>
            /\ Snapshot = hist[c].pre
            /\ proc[c].pc = "done" =>
                  IF OrderAtCall(c) = {}
                  THEN proc[c].result.kind = "OrderError"
                  ELSE /\ proc[c].result.kind = "ok"
                       /\ {proc[c].result.row[1]} = OrderAtCall(c)
                       /\ {proc[c].result.items[k] : k \in 1..Len(proc[c].result.items)}
                             = ItemsOf(hist[c].pre.order_items, proc[c].order_id)
                       /\ Len(proc[c].result.items)
                             = Cardinality(ItemsOf(hist[c].pre.order_items, proc[c].order_id))
                       /\ \A o \in OrderAtCall(c) :
                             {proc[c].result.customer[k] :
                                 k \in 1..Len(proc[c].result.customer)}
                               = {r \in hist[c].pre.customers : r.cust_id = o.cust_id}

\* the details of an order with items were returned without a customer
C11_Witness ==
    \E c \in Callers :
        /\ Done(c, "get_order_details")
        /\ proc[c].result.kind = "ok"
        /\ proc[c].result.customer = None
        /\ proc[c].result.items # <<>>

\* the first limit customer rows at the call, ascending cust_id
ExpectedCustomers(c) ==
    LET all == CustomerList(hist[c].pre.customers)
    IN IF Len(all) <= proc[c].n THEN all ELSE SubSeq(all, 1, proc[c].n)

\* C12: list_customers(limit) returns the list of the customer rows, at
\* most limit of them in ascending cust_id order, the empty list for the
\* empty table.
C12_ListCustomers ==
    \A c \in Callers :
        Done(c, "list_customers") =>
            /\ proc[c].result.kind = "ok"
            /\ proc[c].result.returned = "list"
            /\ proc[c].result.items = ExpectedCustomers(c)

\* C13: a failure from the order insert onward, the re-reads included, with
\* a compensation none of whose round trips fails, leaves no order row and
\* no order_items row written by the call.
C13_NoRowsLeftBehind ==
    \A c \in Callers :
        (Done(c, "create_order") /\ hist[c].firstFail # None /\ hist[c].rbFail = None) =>
            /\ orders = hist[c].pre.orders
            /\ order_items = hist[c].pre.order_items

\* cancel_order failed at a store round trip of its try block: the read or
\* the write of an item's product, the status update or its re-read
CancelTryFailure(c) ==
    /\ Done(c, "cancel_order")
    /\ proc[c].order # None
    /\ proc[c].result.kind # "ok"
    /\ proc[c].result.cause \in {"get_product_by_id", "update_product",
                                 "update orders", "select orders"}

\* the items whose quantity was added back before the failure
RestoredItems(c) ==
    LET l == proc[c]
        k == IF l.result.cause \in {"get_product_by_id", "update_product"}
             THEN l.i - 1 ELSE Len(l.items)
    IN {l.items[j] : j \in 1..k}

\* the stocks are those of the call plus the quantities of RestoredItems
PartlyRestored(c) ==
    \A r \in products :
        r.stock = Stock(hist[c].pre.products, r.prod_id)
                  + SumRows({x \in RestoredItems(c) : x.prod_id = r.prod_id}, FALSE)

StatusOf(order_id) == (CHOOSE o \in orders : o.order_id = order_id).status

\* C14 as stated: after a store failure in the stock restoration or the
\* status update the caller has an OrderError with the cause, the earlier
\* items stay restored, the later ones are not, the status is PLACED.
C14_Original ==
    \A c \in Callers :
        CancelTryFailure(c) =>
            /\ proc[c].result.kind = "OrderError"
            /\ PartlyRestored(c)
            /\ StatusOf(proc[c].order_id) = "PLACED"

\* C14: the same, but the status is PLACED unless the failing round trip is
\* the re-read that follows the status update, after which it is CANCELLED.
C14_CancelFailure ==
    \A c \in Callers :
        CancelTryFailure(c) =>
            /\ proc[c].result.kind = "OrderError"
            /\ PartlyRestored(c)
            /\ StatusOf(proc[c].order_id) =
                  IF proc[c].result.cause = "select orders" THEN "CANCELLED" ELSE "PLACED"

\* the write for the second item failed after the first was restored
C14_Witness ==
    \E c \in Callers :
        /\ CancelTryFailure(c)
        /\ proc[c].result.cause = "update_product"
        /\ proc[c].i = 2
        /\ products # hist[c].pre.products
        /\ StatusOf(proc[c].order_id) = "PLACED"

\* the quantities of product prod_id held by the orders in status PLACED
HeldByPlaced(prod_id) ==
    SumRows({x \in order_items :
                /\ x.prod_id = prod_id
                /\ \E o \in orders : o.order_id = x.order_id /\ o.status = "PLACED"},
            FALSE)

\* the product rows of InitTables
InitialProducts ==
    {[prod_id |-> 1, price |-> 1, stock |-> 2], [prod_id |-> 2, price |-> 2, stock |-> 1]}

\* C17: whenever no create_order or cancel_order call is under way, one
\* caller and no store failure, the stock of every product plus the
\* quantities of its item rows in PLACED orders is the product's initial
\* stock; a rejected call leaves the sum as it was.
C17_StockConservation ==
    (\A c \in Callers : proc[c].pc \in {"idle", "done"}) =>
        \A r \in products :
            r.stock + HeldByPlaced(r.prod_id) = Stock(InitialProducts, r.prod_id)

\* a cancel_order has completed while another order is PLACED with items,
\* and some order was cancelled with items
C17_Witness ==
    /\ \E c \in Callers : Done(c, "cancel_order") /\ proc[c].result.kind = "ok"
    /\ \E o \in orders : o.status = "PLACED" /\ ItemsOf(order_items, o.order_id) # {}
    /\ \E o \in orders : o.status = "CANCELLED" /\ ItemsOf(order_items, o.order_id) # {}
    /\ \E r \in products : r.stock < Stock(InitialProducts, r.prod_id)

\* C15: under any interleaving of remove_customer and create_order, every
\* order row's cust_id is the id of a customer row.
C15_OrdersHaveCustomer ==
    \A o \in orders : \E r \in customers : r.cust_id = o.cust_id

\* C16: nothing serialises the decrement: the stock a caller writes is the
\* stock that caller read less the quantity, whatever the product's stock
\* has become since the read.
C16_DecrementUnserialised ==
    [][\A c \in Callers :
          (proc[c].pc = "co_dec_write" /\ proc'[c] # proc[c]) =>
              LET it == proc[c].order_items[proc[c].i]
              IN Stock(products', it.prod_id) = proc[c].prod[1].stock - it.quantity]_vars

\* both callers' orders of one piece of product 1 and one of product 2 are
\* persisted as PLACED with their items; product 1 (stock 2) has lost one
\* of the two decrements, product 2 (stock 1) is negative although both
\* orders were admitted
C16_Witness ==
    /\ \A c \in TwoCallers :
          /\ Done(c, "create_order")
          /\ proc[c].result.kind = "ok"
          /\ \E o \in orders :
                /\ o.status = "PLACED"
                /\ o.order_id = proc[c].created_order[1].order_id
                /\ \A p \in ProdIds :
                      SumRows({x \in ItemsOf(order_items, o.order_id) : x.prod_id = p},
                              FALSE) = 1
    /\ proc[1].created_order # proc[2].created_order
    /\ Stock(products, 1) = Stock(InitialProducts, 1) - 1
    /\ Stock(products, 2) < 0

\* C18: under any interleaving of cancel_order calls on one PLACED order,
\* each item's quantity is added back at most once: no stock exceeds what
\* the product had before the order was placed.
C18_RestoredAtMostOnce ==
    \A r \in products : r.stock <= Stock(InitialProducts, r.prod_id)

\* C19: under any interleaving of create_order calls, no two calls work on
\* the same order row.
C19_OwnOrderRow ==
    \A c, d \in Callers :
        (/\ c # d
         /\ proc[c].op = "create_order" /\ proc[c].created_order # None
         /\ proc[d].op = "create_order" /\ proc[d].created_order # None) =>
            proc[c].created_order[1].order_id # proc[d].created_order[1].order_id

====
